---------------------------- MODULE Spec2Model ----------------------------
(***************************************************************************)
(* A model of fhost.py (0x0, the file host): the identifier codec           *)
(* (UrlEncoder), the expiration policy (get_max_lifespan,                   *)
(* File.get_expiration), the File table with the upload path (File.store,   *)
(* store_file), the management path (get, manage_file, File.delete) and the *)
(* batch jobs (prune, vscan).                                               *)
(*                                                                         *)
(* Units.  TLC's integers are 32 bits wide, the program's are unbounded, so *)
(* the model counts time in MINUTES (the program: milliseconds) and file    *)
(* sizes in units of 16 MiB (the program: bytes).  Every time constant of   *)
(* the program is a whole number of minutes and MAX_CONTENT_LENGTH a whole  *)
(* number of 16 MiB units, so the constants below are the program's own     *)
(* values in these units.                                                   *)
(*                                                                         *)
(* Nullable columns and optional arguments are sequences of length at most  *)
(* one: None is <<>>, a present value v is <<v>>.                           *)
(***************************************************************************)
EXTENDS Integers, Sequences, FiniteSets, TLC

VARIABLES
    files,      \* the File table: a sequence of rows, a row's id is its index
    disk,       \* the digests that name a file under FHOST_STORAGE_PATH
    quarantine, \* the names under VSCAN_QUARANTINE_PATH
    now,        \* the wall clock, time.time()
    nTick,      \* how often the clock has advanced
    nUploads,   \* how many upload requests have been started
    pc,         \* per upload worker: where its request stands in File.store
    ses,        \* per upload worker: the request's arguments and its session
    resp,       \* per upload worker: the last response it sent
    prn,        \* the prune command: its position, work list and session
    hist,       \* history: the prune runs completed with nothing in between
    pure        \* the input and the result of a pure function under check

vars == <<files, disk, quarantine, now, nTick, nUploads, pc, ses,
          resp, prn, hist, pure>>

-----------------------------------------------------------------------------
(* Optional values *)

None == <<>>

Some(v) == <<v>>

Val(x) == x[1]

Min(a, b) == IF a <= b THEN a ELSE b

Max(a, b) == IF a >= b THEN a ELSE b

\* Python's int(a / b) for b > 0: the quotient rounded toward zero.
TruncDiv(a, b) == IF a >= 0 THEN a \div b ELSE 0 - ((0 - a) \div b)

RECURSIVE Pow(_, _)
Pow(b, e) == IF e = 0 THEN 1 ELSE b * Pow(b, e - 1)

-----------------------------------------------------------------------------
(* UrlEncoder *)

URL_ALPHABET ==
    << "D","E","Q","h","d","2","u","F","t","e","i","b","P","w","q","0",
       "S","W","B","I","n","T","p","A","_","j","c","Z","L","5","G","K",
       "z","3","Y","C","R","1","4","U","l","k","8","7","J","o","r","s",
       "9","v","N","H","g","f","a","O","m","M","X","y","6","V","x","-" >>

\* su = UrlEncoder(alphabet=URL_ALPHABET, min_length=1)
su_min_length == 1

\* The while loop of enbase: the digits of x, least significant first, each
\* put in front of str.
RECURSIVE EnbaseLoop(_, _, _)
EnbaseLoop(alphabet, x, str) ==
    IF x > 0
    THEN EnbaseLoop(alphabet, x \div Len(alphabet),
                    <<alphabet[(x % Len(alphabet)) + 1]>> \o str)
    ELSE str

\* A mutant of enbase: the digits come out least significant first.
enbaseReversed(alphabet, min_length, x) ==
    LET RECURSIVE Loop(_, _)
        Loop(y, str) ==
            IF y > 0
            THEN Loop(y \div Len(alphabet),
                      str \o <<alphabet[(y % Len(alphabet)) + 1]>>)
            ELSE str
        str == Loop(x, <<>>)
        padding == [i \in 1 .. (min_length - Len(str)) |-> alphabet[1]]
    IN  padding \o str

\* A mutant of enbase: the name is not padded.
enbaseUnpadded(alphabet, min_length, x) == EnbaseLoop(alphabet, x, <<>>)

\* UrlEncoder.enbase.  alphabet[0] * k is the empty string for k <= 0.
enbase(alphabet, min_length, x) ==
    LET str == EnbaseLoop(alphabet, x, <<>>)
        padding == [i \in 1 .. (min_length - Len(str)) |-> alphabet[1]]
    IN  padding \o str

\* str.index(c): the zero-based position of the first occurrence of c.
Index(alphabet, c) ==
    (CHOOSE i \in 1 .. Len(alphabet) :
        /\ alphabet[i] = c
        /\ \A j \in 1 .. (i - 1) : alphabet[j] # c) - 1

\* UrlEncoder.debase: the i-th character from the right weighs n ** i.
RECURSIVE DebaseSum(_, _, _)
DebaseSum(alphabet, x, i) ==
    IF i >= Len(x) THEN 0
    ELSE Index(alphabet, x[Len(x) - i]) * Pow(Len(alphabet), i)
         + DebaseSum(alphabet, x, i + 1)

debase(alphabet, x) == DebaseSum(alphabet, x, 0)

-----------------------------------------------------------------------------
(* Expiration policy *)

\* 30 days, in minutes
FHOST_MIN_EXPIRATION == 43200

\* 365 days, in minutes
FHOST_MAX_EXPIRATION == 525600

\* 256 MiB, in units of 16 MiB
MAX_CONTENT_LENGTH == 16

\* 1650460320000 ms, in minutes: below it a requested expiration is a
\* duration in hours, from it on a timestamp
EXPIRATION_THRESHOLD == 27507672

\* 60 * 60 * 1000 ms, in minutes
HOUR == 60

\* A mutant of get_max_lifespan: the exponent is 2.
get_max_lifespanSquared(filesize) ==
    FHOST_MIN_EXPIRATION
    + TruncDiv((FHOST_MIN_EXPIRATION - FHOST_MAX_EXPIRATION)
                   * Pow(filesize - MAX_CONTENT_LENGTH, 2),
               Pow(MAX_CONTENT_LENGTH, 2))

\* get_max_lifespan.  (filesize / max_size - 1) ** 3 is
\* (filesize - max_size)^3 / max_size^3; int() rounds toward zero.
get_max_lifespan(filesize) ==
    FHOST_MIN_EXPIRATION
    + TruncDiv((FHOST_MIN_EXPIRATION - FHOST_MAX_EXPIRATION)
                   * Pow(filesize - MAX_CONTENT_LENGTH, 3),
               Pow(MAX_CONTENT_LENGTH, 3))

\* A mutant of File.get_expiration: the request is not capped.
get_expirationUncapped(requested_expiration, size, t1, t2) ==
    IF requested_expiration = None
    THEN get_max_lifespan(size) + t2
    ELSE IF Val(requested_expiration) < EXPIRATION_THRESHOLD
         THEN t1 + Val(requested_expiration) * HOUR
         ELSE Val(requested_expiration)

\* File.get_expiration.  The function reads the clock twice: t1 is the first
\* reading (current_epoch_millis), t2 the second (in max_expiration).
get_expiration(requested_expiration, size, t1, t2) ==
    LET current_epoch_millis == t1
        max_lifespan == get_max_lifespan(size)
        max_expiration == max_lifespan + t2
    IN  IF requested_expiration = None
        THEN max_expiration
        ELSE IF Val(requested_expiration) < EXPIRATION_THRESHOLD
             THEN Min(max_expiration,
                      current_epoch_millis + Val(requested_expiration) * HOUR)
             ELSE Min(max_expiration, Val(requested_expiration))

-----------------------------------------------------------------------------
(* Bounds and inputs *)

\* The clock when the service starts, in minutes since the epoch.
T0 == 29000000

\* How often the clock advances by a minute.
MaxTicks == 1

\* How many upload requests are started when the handlers run one at a time.
MaxUploads == 2

\* How many upload requests are started when uploads race with each other.
MaxRaceUploads == 3

\* The largest id encoded, besides the samples near the powers of 64.
MaxId == 4200

\* The largest min_length a UrlEncoder is made with.
MaxMinLength == 3

\* Concurrent upload requests.
Workers == {1, 2}

\* The byte contents clients upload.
Contents == {1, 2}

\* hashlib's file_digest(stream, "sha256").hexdigest(): taken to be free of
\* collisions, so each content has a digest of its own.
Sha256(c) == <<"9f86d0", "60303a">>[c]

\* TransferFile.size, in units of 16 MiB.
SizeOf(c) == <<4, 16>>[c]

\* TransferFile.ext, from the declared name and the MIME type.
ExtOf(c) == <<".txt", ".bin">>[c]

\* The uploaders: remote address and user agent.
Clients == {1, 2}

AddrOf(cl) == <<"203.0.113.5", "198.51.100.7">>[cl]

UaOf(cl) == <<"curl/8.5", "Mozilla/5.0">>[cl]

\* The "expires" form field of an upload or a management request: absent,
\* 0 hours, 9000 hours (above every cap), or a timestamp far above every cap.
Requested == {None, Some(0), Some(9000), Some(2 * T0)}

\* What File.store finds wrong with the MIME type before it does anything.
MimeChecks == {"ok", "too long", "filtered"}

VSCAN_IGNORE == {"Eicar-Test-Signature", "PUA.Win.Packer.XmMusicFile"}

\* 7 days, in minutes
VSCAN_INTERVAL == 10080

\* What the scanner answers for a file that is there.
ScanResults ==
    { <<"OK", "">>, <<"FOUND", "Eicar-Test-Signature">>,
      <<"FOUND", "Win.Trojan.Agent">>, <<"SCAN FAILED", "">> }

-----------------------------------------------------------------------------
(* The File table *)

\* secrets.token_urlsafe: a random string, taken never to repeat.  The k-th
\* string the service could draw is the number k; an upload request draws at
\* most two, and the n-th request draws from 2n+1 and 2n+2.
token_urlsafe(k) == k

\* File.getpath: the path is the digest under FHOST_STORAGE_PATH.
getpath(f) == f.sha256

\* File.getname
getname(id, f) == <<enbase(URL_ALPHABET, su_min_length, id), f.ext>>

\* A mutant of the lookup by digest: no row is ever found, neither by the
\* query of File.store nor by the unique index.
QueryByShaMisses(sha256) == 0

\* File.query.filter_by(sha256=...).first(): the id of the row, 0 for None.
QueryBySha(sha256) ==
    IF \E i \in 1 .. Len(files) : files[i].sha256 = sha256
    THEN CHOOSE i \in 1 .. Len(files) :
            /\ files[i].sha256 = sha256
            /\ \A j \in 1 .. (i - 1) : files[j].sha256 # sha256
    ELSE 0

\* File.__init__, with the column defaults (removed=False) and the columns it
\* leaves NULL.
NewFile(c, addr, ua, expiration, mgmt_token) ==
    [ sha256 |-> Sha256(c), ext |-> ExtOf(c), addr |-> addr, ua |-> ua,
      removed |-> FALSE, expiration |-> expiration,
      mgmt_token |-> mgmt_token, secret |-> None, last_vscan |-> None,
      size |-> None ]

\* The session's UPDATE of a loaded row: it writes the attributes whose value
\* differs from the value loaded, and leaves the other columns as they are in
\* the table now.
Flush(row, loaded, f) ==
    [col \in DOMAIN row |-> IF f[col] # loaded[col] THEN f[col] ELSE row[col]]

\* A mutant of File.delete: the management token survives.
deleteKeepsToken(f, permanent) ==
    [f EXCEPT !.expiration = None, !.removed = permanent]

\* File.delete, the row's part; the caller unlinks the file.
delete(f, permanent) ==
    [f EXCEPT !.expiration = None, !.mgmt_token = None, !.removed = permanent]

NoSes == [file |-> 0]

NoResp == [status |-> 0]

Idle == [pc |-> "idle"]

NoPure == [kind |-> "none"]

\* The response of store_file, or of the error handler: the status, the name
\* in the URL, the X-Token header (None when the header is absent) and, for
\* the properties, the upload's content and File.store's isnew.  The secret in
\* the URL and X-Expires are the row's columns at that moment and are not kept.
Response(status, c, name, xtoken, isnew) ==
    [ status |-> status, file |-> c, name |-> name, xtoken |-> xtoken,
      isnew |-> isnew ]

Abort(status, c) == Response(status, c, None, None, FALSE)

BaseInit ==
    /\ files = <<>>
    /\ disk = {}
    /\ quarantine = {}
    /\ now = T0
    /\ nTick = 0
    /\ nUploads = 0
    /\ pc = [w \in Workers |-> "idle"]
    /\ ses = [w \in Workers |-> NoSes]
    /\ resp = [w \in Workers |-> NoResp]
    /\ prn = Idle
    /\ hist = [quiet |-> 0, dirty |-> FALSE]

Init ==
    /\ BaseInit
    /\ pure = NoPure

\* The clock readings a handler can take after reading `now`: the same minute,
\* or the next one.
LaterReadings == IF nTick < MaxTicks THEN {now, now + 1} ELSE {now}

Advance(t) ==
    /\ now' = t
    /\ nTick' = nTick + (t - now)

\* History: something other than prune has run.
Disturb == hist' = [quiet |-> 0, dirty |-> prn.pc # "idle"]

Tick ==
    /\ nTick < MaxTicks
    /\ Advance(now + 1)
    /\ Disturb
    /\ UNCHANGED <<files, disk, quarantine, nUploads, pc, ses, resp, prn, pure>>

-----------------------------------------------------------------------------
(* File.store and store_file, one request per worker *)

\* A mutant of the check of f.removed: no digest is blocked.
NeverBlocked(f) == FALSE

\* File.store, "if f.removed": the digest was removed by moderation.
Blocked(f) == f.removed

\* A mutant of the check of f.expiration: every row found counts as expired.
AlwaysExpired(f) == TRUE

\* File.store, "if f.expiration is None": the row has expired, and the upload
\* revives it.
IsExpired(f) == f.expiration = None

\* File.store, the revival: a new expiration and a new management token.
Revive(f, expiration, token) ==
    [f EXCEPT !.expiration = expiration, !.mgmt_token = Some(token)]

\* A mutant of the extension: the new lifetime is added to the old one.
ExtendStacked(f, expiration) ==
    [f EXCEPT !.expiration =
        Some(Val(f.expiration) + (Val(expiration) - now) + 1)]

\* A mutant of the extension: the computed expiration replaces the old one.
ExtendReplaces(f, expiration) == [f EXCEPT !.expiration = expiration]

\* File.store, the row is live: the later of the two expirations.
Extend(f, expiration) ==
    [f EXCEPT !.expiration = Some(Max(Val(f.expiration), Val(expiration)))]

\* A mutant of "if isnew": the secret is only written when one is asked for.
SetSecretKeeps(f, isnew, secret, string) ==
    IF isnew /\ secret THEN [f EXCEPT !.secret = Some(string)] ELSE f

\* File.store, "if isnew": the secret is reset, and drawn when asked for.
SetSecret(f, isnew, secret, string) ==
    IF isnew
    THEN [f EXCEPT !.secret = IF secret THEN Some(string) ELSE None]
    ELSE f

\* File.store up to the in-memory record: the MIME checks, get_expiration, the
\* query by digest and the branches on what it finds.  A request that fails
\* the MIME checks reads no clock.
StoreQuery(w, c, requested_expiration, cl, secret, mime, t2) ==
    LET addr == AddrOf(cl)
        ua == UaOf(cl)
        token == token_urlsafe(2 * nUploads + 1)
        expiration == Some(get_expiration(requested_expiration, SizeOf(c),
                                          now, t2))
        id == QueryBySha(Sha256(c))
        found == id # 0
        loaded == IF found THEN files[id]
                  ELSE NewFile(c, addr, ua, expiration, Some(token))
        isnew == ~found \/ IsExpired(loaded)
        f1 == IF ~found THEN loaded
              ELSE IF IsExpired(loaded) THEN Revive(loaded, expiration, token)
              ELSE Extend(loaded, expiration)
        f2 == [f1 EXCEPT !.addr = addr, !.ua = ua]
        f3 == SetSecret(f2, isnew, secret, token_urlsafe(2 * nUploads + 2))
    IN  /\ pc[w] = "idle"
        /\ nUploads' = nUploads + 1
        /\ IF mime # "ok"
           THEN /\ t2 = now
                /\ resp' = [resp EXCEPT ![w] =
                      Abort(IF mime = "too long" THEN 400 ELSE 403, c)]
                /\ UNCHANGED <<now, nTick, pc, ses>>
           ELSE /\ Advance(t2)
                /\ IF found /\ Blocked(loaded)
                   THEN /\ resp' = [resp EXCEPT ![w] = Abort(451, c)]
                        /\ UNCHANGED <<pc, ses>>
                   ELSE /\ pc' = [pc EXCEPT ![w] = "queried"]
                        /\ ses' = [ses EXCEPT ![w] =
                              [ file |-> c, isnew |-> isnew, fresh |-> ~found,
                                id |-> id, loaded |-> loaded, f |-> f3 ]]
                        /\ UNCHANGED resp
        /\ Disturb
        /\ UNCHANGED <<files, disk, quarantine, prn, pure>>

\* File.store: the bytes are written unless a file of that digest is there.
StoreSave(w) ==
    /\ pc[w] = "queried"
    /\ disk' = disk \cup {Sha256(ses[w].file)}
    /\ pc' = [pc EXCEPT ![w] = "saved"]
    /\ Disturb
    /\ UNCHANGED <<files, quarantine, now, nTick, nUploads, ses, resp, prn,
                   pure>>

\* File.store: f.size, then db.session.add(f) and db.session.commit().  A new
\* object is INSERTed, and the unique constraint on sha256 raises
\* IntegrityError when a row of that digest has appeared since the query;
\* nothing catches it, and the request ends with status 500.
StoreCommit(w) ==
    LET s == ses[w]
        f == [s.f EXCEPT !.size = Some(SizeOf(s.file))]
    IN  /\ pc[w] = "saved"
        /\ IF s.fresh
           THEN IF QueryBySha(f.sha256) # 0
                THEN /\ resp' = [resp EXCEPT ![w] = Abort(500, s.file)]
                     /\ pc' = [pc EXCEPT ![w] = "idle"]
                     /\ ses' = [ses EXCEPT ![w] = NoSes]
                     /\ UNCHANGED files
                ELSE /\ files' = Append(files, f)
                     /\ pc' = [pc EXCEPT ![w] = "committed"]
                     /\ ses' = [ses EXCEPT ![w].id = Len(files) + 1]
                     /\ UNCHANGED resp
           ELSE /\ files' = [files EXCEPT ![s.id] = Flush(@, s.loaded, f)]
                /\ pc' = [pc EXCEPT ![w] = "committed"]
                /\ UNCHANGED <<ses, resp>>
        /\ Disturb
        /\ UNCHANGED <<disk, quarantine, now, nTick, nUploads, prn, pure>>

\* store_file: the commit has expired the object, so geturl(), X-Expires and
\* X-Token read the row as it is in the table now.
StoreRespond(w) ==
    LET s == ses[w]
        sf == files[s.id]
    IN  /\ pc[w] = "committed"
        /\ resp' = [resp EXCEPT ![w] =
              Response(200, s.file, Some(getname(s.id, sf)),
                       IF s.isnew THEN Some(sf.mgmt_token) ELSE None,
                       s.isnew)]
        /\ pc' = [pc EXCEPT ![w] = "idle"]
        /\ ses' = [ses EXCEPT ![w] = NoSes]
        /\ Disturb
        /\ UNCHANGED <<files, disk, quarantine, now, nTick, nUploads, prn,
                       pure>>

-----------------------------------------------------------------------------
(* get and manage_file *)

\* The form of a POST to a file's path: the token, and which of "delete" and
\* "expires" it holds ("delete" is looked at first; "malformed" is an
\* "expires" that int() rejects).
FormKinds == {"delete", "expires", "malformed", "none"}

\* The outcome of a handler: the status, the row as the handler leaves it,
\* whether the file was unlinked, whether the bytes were served.
Outcome(status, f, unlinked, served) ==
    [status |-> status, f |-> f, unlinked |-> unlinked, served |-> served]

\* A mutant of manage_file: the token is not checked.
manage_fileUnchecked(f, token, kind, value, t1, t2) ==
    IF kind = "delete"
    THEN Outcome(200, delete(f, FALSE), TRUE, FALSE)
    ELSE IF kind = "malformed" \/ kind = "none"
    THEN Outcome(400, f, FALSE, FALSE)
    ELSE Outcome(202,
                 [f EXCEPT !.expiration =
                     Some(get_expiration(Some(value), Val(f.size), t1, t2))],
                 FALSE, FALSE)

\* manage_file.  request.form["token"] is a string: it never equals a NULL
\* mgmt_token.
manage_file(f, token, kind, value, t1, t2) ==
    IF Some(token) # f.mgmt_token
    THEN Outcome(401, f, FALSE, FALSE)
    ELSE IF kind = "delete"
    THEN Outcome(200, delete(f, FALSE), TRUE, FALSE)
    ELSE IF kind = "malformed" \/ kind = "none"
    THEN Outcome(400, f, FALSE, FALSE)
    ELSE Outcome(202,
                 [f EXCEPT !.expiration =
                     Some(get_expiration(Some(value), Val(f.size), t1, t2))],
                 FALSE, FALSE)

\* A mutant of get: the secret in the path is not compared with the row's.
getAnySecret(method, name, sufs, secret, token, kind, value, t1, t2) ==
    LET id == debase(URL_ALPHABET, name)
        known == id \in 1 .. Len(files)
        f == files[id]
    IN  IF sufs = ""
        THEN Outcome(IF method = "POST" THEN 405 ELSE 404, None, FALSE, FALSE)
        ELSE IF ~known
        THEN Outcome(404, None, FALSE, FALSE)
        ELSE IF f.ext # sufs
        THEN Outcome(404, f, FALSE, FALSE)
        ELSE IF f.removed
        THEN Outcome(451, f, FALSE, FALSE)
        ELSE IF getpath(f) \notin disk
        THEN Outcome(404, f, FALSE, FALSE)
        ELSE IF method = "POST"
        THEN manage_file(f, token, kind, value, t1, t2)
        ELSE Outcome(200, f, FALSE, TRUE)

\* get, for a path <name><sufs> with a name over the alphabet (one with "." in
\* it is answered 404 before it is decoded).  Without a suffix the path names
\* a shortened URL; the URL table is not modelled and holds no row.
get(method, name, sufs, secret, token, kind, value, t1, t2) ==
    LET id == debase(URL_ALPHABET, name)
        known == id \in 1 .. Len(files)
        f == files[id]
    IN  IF sufs = ""
        THEN Outcome(IF method = "POST" THEN 405 ELSE 404, None, FALSE, FALSE)
        ELSE IF ~known
        THEN Outcome(404, None, FALSE, FALSE)
        ELSE IF f.ext # sufs
        THEN Outcome(404, f, FALSE, FALSE)
        ELSE IF f.secret # secret
        THEN Outcome(404, f, FALSE, FALSE)
        ELSE IF f.removed
        THEN Outcome(451, f, FALSE, FALSE)
        ELSE IF getpath(f) \notin disk
        THEN Outcome(404, f, FALSE, FALSE)
        ELSE IF method = "POST"
        THEN manage_file(f, token, kind, value, t1, t2)
        ELSE Outcome(200, f, FALSE, TRUE)

\* The names a request can carry: the name of every row and of the id after
\* the last, and the first row's name with the alphabet's first character in
\* front.
Names ==
    {enbase(URL_ALPHABET, su_min_length, i) : i \in 1 .. (Len(files) + 1)}
    \cup {<<URL_ALPHABET[1]>> \o enbase(URL_ALPHABET, su_min_length, 1)}

\* The "expires" form field of a management request.
ManageRequested == {0, 9000, 2 * T0}

Suffixes == {"", ".txt", ".bin"}

\* The tokens no response has carried yet: those drawn by the uploads that are
\* still in progress.
Unreleased ==
    {ses[w].f.mgmt_token : w \in {v \in Workers : pc[v] # "idle"}}

\* The strings a client can send as a token: the tokens in the table that an
\* X-Token header has carried, and a string token_urlsafe never returns.
Tokens ==
    {0} \cup {Val(files[i].mgmt_token) :
                 i \in {j \in 1 .. Len(files) :
                           /\ files[j].mgmt_token # None
                           /\ files[j].mgmt_token \notin Unreleased}}

\* The secrets a client can send: none (the route without /s/), the secrets in
\* the table, and a string token_urlsafe never returns.
Secrets ==
    {None, Some(0)} \cup {files[i].secret : i \in 1 .. Len(files)}

\* Whether a request gets as far as get's branch on the method.
Reaches(name, sufs, secret) ==
    LET id == debase(URL_ALPHABET, name)
    IN  /\ sufs # ""
        /\ id \in 1 .. Len(files)
        /\ files[id].ext = sufs
        /\ files[id].secret = secret
        /\ ~files[id].removed
        /\ getpath(files[id]) \in disk

\* One request to get(): the whole handler in one step.
Get(method, name, sufs, secret, token, kind, value, t2) ==
    LET out == get(method, name, sufs, secret, token, kind, value, now, t2)
        id == debase(URL_ALPHABET, name)
    IN  /\ Advance(t2)
        /\ files' = IF out.f = None THEN files
                    ELSE [files EXCEPT ![id] = out.f]
        /\ disk' = IF out.unlinked THEN disk \ {getpath(out.f)} ELSE disk
        /\ Disturb
        /\ UNCHANGED <<quarantine, nUploads, pc, ses, resp, prn, pure>>

\* The requests to get().  The form is read by manage_file alone, and the
\* clock by its "expires" branch alone, so the requests that do not get there
\* are taken with an empty form.
GetRequest(kinds, values) ==
    \E name \in Names, sufs \in Suffixes, secret \in Secrets :
        \/ Get("GET", name, sufs, secret, 0, "none", 0, now)
        \/ /\ ~Reaches(name, sufs, secret)
           /\ Get("POST", name, sufs, secret, 0, "none", 0, now)
        \/ /\ Reaches(name, sufs, secret)
           /\ \E token \in Tokens :
                \/ \E kind \in kinds \ {"expires"} :
                      Get("POST", name, sufs, secret, token, kind, 0, now)
                \/ \E value \in values, t2 \in LaterReadings :
                      Get("POST", name, sufs, secret, token, "expires",
                          value, t2)

-----------------------------------------------------------------------------
(* prune *)

\* The query of prune: the rows whose expiration is set and has passed.
Expired(current_time) ==
    {i \in 1 .. Len(files) :
        /\ files[i].expiration # None
        /\ Val(files[i].expiration) < current_time}

\* prune, up to the loop: the clock is read and the query run.  The two batch
\* jobs are run by the operator, one at a time.
PruneStart ==
    /\ prn.pc = "idle"
    /\ prn' = [pc |-> "loop", todo |-> Expired(now), nulled |-> {}]
    /\ hist' = [hist EXCEPT !.dirty = FALSE]
    /\ UNCHANGED <<files, disk, quarantine, now, nTick, nUploads, pc, ses,
                   resp, pure>>

\* One turn of the loop: os.remove succeeds or finds no file, and the row's
\* expiration is set to None in the session.
PruneRemove(i) ==
    /\ prn.pc = "loop"
    /\ i \in prn.todo
    /\ disk' = disk \ {files[i].sha256}
    /\ prn' = [prn EXCEPT !.todo = @ \ {i}, !.nulled = @ \cup {i}]
    /\ UNCHANGED <<files, quarantine, now, nTick, nUploads, pc, ses, resp,
                   hist, pure>>

\* One turn of the loop: os.remove raises another OSError, and prune returns
\* without a commit.
PruneOSError(i) ==
    /\ prn.pc = "loop"
    /\ i \in prn.todo
    /\ prn' = Idle
    /\ hist' = [quiet |-> 0, dirty |-> FALSE]
    /\ UNCHANGED <<files, disk, quarantine, now, nTick, nUploads, pc, ses,
                   resp, pure>>

\* A mutant of the end of prune: nothing is committed.
PruneCommitNothing ==
    /\ prn.pc = "loop"
    /\ prn.todo = {}
    /\ prn' = Idle
    /\ hist' = [quiet |-> IF hist.dirty THEN 0 ELSE Min(hist.quiet + 1, 2),
                dirty |-> FALSE]
    /\ UNCHANGED <<files, disk, quarantine, now, nTick, nUploads, pc, ses,
                   resp, pure>>

\* db.session.commit() after the loop.
PruneCommit ==
    /\ prn.pc = "loop"
    /\ prn.todo = {}
    /\ files' = [i \in 1 .. Len(files) |->
                    IF i \in prn.nulled
                    THEN [files[i] EXCEPT !.expiration = None]
                    ELSE files[i]]
    /\ prn' = Idle
    /\ hist' = [quiet |-> IF hist.dirty THEN 0 ELSE Min(hist.quiet + 1, 2),
                dirty |-> FALSE]
    /\ UNCHANGED <<disk, quarantine, now, nTick, nUploads, pc, ses, resp,
                   pure>>

-----------------------------------------------------------------------------
(* vscan *)

\* A mutant of the query of vscan: every row is scanned again.
ToScanAll == 1 .. Len(files)

\* The query of vscan: the rows never scanned or last scanned before the
\* interval, and not removed.
ToScan ==
    {i \in 1 .. Len(files) :
        /\ \/ files[i].last_vscan = None
           \/ Val(files[i].last_vscan) < now - VSCAN_INTERVAL
        /\ files[i].removed = FALSE}

\* do_vscan: the scanner's answer for a file that is there.
do_vscan(f, answer) ==
    IF getpath(f) \in disk THEN answer ELSE <<"FILE NOT FOUND", "">>

\* A mutant of the test of the signature: VSCAN_IGNORE is not consulted.
QuarantinedAlways(result) == result[1] = "FOUND"

\* Whether the loop of vscan moves the file to the quarantine.
Quarantined(result) ==
    result[1] = "FOUND" /\ result[2] \notin VSCAN_IGNORE

\* The mapping the loop of vscan appends to results.
ScanMapping(i, result) ==
    [ id |-> i,
      last_vscan |-> IF result[1] = "SCAN FAILED" THEN None ELSE Some(now),
      removed |-> Quarantined(result) ]

\* db.session.bulk_update_mappings(File, results): one mapping per id, each
\* setting last_vscan and removed of its row.
BulkUpdate(table, results) ==
    [i \in 1 .. Len(table) |->
        IF \E r \in results : r.id = i
        THEN LET r == CHOOSE r \in results : r.id = i
             IN  [table[i] EXCEPT !.last_vscan = r.last_vscan,
                                  !.removed = r.removed]
        ELSE table[i]]

\* One run of vscan, the whole command in one step: the query, a scan of
\* every row it returns (answers[i] is the scanner's answer for row i), the
\* renames into the quarantine, the bulk update and the commit.
Vscan(answers) ==
    LET result(i) == do_vscan(files[i], answers[i])
        moved == {i \in ToScan : Quarantined(result(i))}
    IN  /\ prn.pc = "idle"
        /\ ToScan # {}
        /\ disk' = disk \ {getpath(files[i]) : i \in moved}
        /\ quarantine' = quarantine \cup {getname(i, files[i]) : i \in moved}
        /\ files' = BulkUpdate(files,
                               {ScanMapping(i, result(i)) : i \in ToScan})
        /\ Disturb
        /\ UNCHANGED <<now, nTick, nUploads, pc, ses, resp, prn, pure>>

-----------------------------------------------------------------------------
(* The service with its handlers and jobs run one at a time *)

AllIdle ==
    /\ \A w \in Workers : pc[w] = "idle"
    /\ prn.pc = "idle"

Upload(workers, contents, requests, clients, flags, mimes) ==
    \E w \in workers, c \in contents, r \in requests, cl \in clients,
       secret \in flags, mime \in mimes, t2 \in LaterReadings :
        StoreQuery(w, c, r, cl, secret, mime, t2)

\* Who sends the next upload: the n-th upload comes from the n-th client.
NextClient == {(nUploads % Cardinality(Clients)) + 1}

Next ==
    \/ AllIdle /\ Tick
    \/ /\ AllIdle
       /\ nUploads < MaxUploads
       /\ Upload({1}, Contents, Requested, NextClient, BOOLEAN, MimeChecks)
    \/ \E w \in Workers : StoreSave(w)
    \/ \E w \in Workers : StoreCommit(w)
    \/ \E w \in Workers : StoreRespond(w)
    \/ AllIdle /\ GetRequest(FormKinds, ManageRequested)
    \/ AllIdle /\ PruneStart
    \/ \E i \in 1 .. Len(files) : PruneRemove(i)
    \/ \E i \in 1 .. Len(files) : PruneOSError(i)
    \/ PruneCommit
    \/ AllIdle /\ \E answers \in [ToScan -> ScanResults] : Vscan(answers)

Spec == Init /\ [][Next]_vars

-----------------------------------------------------------------------------
(* The service with its requests and prune interleaved: every step of an     *)
(* upload, a request to get() and a step of prune can come between two steps *)
(* of another.                                                              *)

ConcContents == {1}

ConcRequested == {None, Some(0), Some(9000)}

ConcNext ==
    \/ Tick
    \/ /\ nUploads < MaxUploads
       /\ Upload(Workers, ConcContents, ConcRequested, {1}, {FALSE}, {"ok"})
    \/ \E w \in Workers : StoreSave(w)
    \/ \E w \in Workers : StoreCommit(w)
    \/ \E w \in Workers : StoreRespond(w)
    \/ GetRequest({"delete"}, {})
    \/ PruneStart
    \/ \E i \in 1 .. Len(files) : PruneRemove(i)
    \/ \E i \in 1 .. Len(files) : PruneOSError(i)
    \/ PruneCommit

SpecConc == Init /\ [][ConcNext]_vars

-----------------------------------------------------------------------------
(* Uploads of one content racing with each other and with management        *)
(* deletes: three uploads, so that two can race for a row a delete has left  *)
(* expired.                                                                 *)

RaceNext ==
    \/ /\ nUploads < MaxRaceUploads
       /\ Upload(Workers, ConcContents, ConcRequested, {1}, {FALSE}, {"ok"})
    \/ \E w \in Workers : StoreSave(w)
    \/ \E w \in Workers : StoreCommit(w)
    \/ \E w \in Workers : StoreRespond(w)
    \/ GetRequest({"delete"}, {})

SpecRace == Init /\ [][RaceNext]_vars

-----------------------------------------------------------------------------
(* UrlEncoder on its own: an id is encoded, and the name decoded *)

CodecIds ==
    (0 .. MaxId)
    \cup {Pow(64, 3) - 1, Pow(64, 3), Pow(64, 4) - 1, Pow(64, 4),
          Pow(64, 5) - 1}

CodecInit ==
    /\ BaseInit
    /\ pure \in {[kind |-> "codec", stage |-> "input", min_length |-> m,
                  x |-> n, str |-> <<>>, result |-> 0] :
                    m \in 0 .. MaxMinLength, n \in CodecIds}

CodecEnbase ==
    /\ pure.kind = "codec"
    /\ pure.stage = "input"
    /\ pure' = [pure EXCEPT !.stage = "encoded",
                            !.str = enbase(URL_ALPHABET, pure.min_length,
                                           pure.x)]
    /\ UNCHANGED <<files, disk, quarantine, now, nTick, nUploads, pc, ses,
                   resp, prn, hist>>

CodecDebase ==
    /\ pure.kind = "codec"
    /\ pure.stage = "encoded"
    /\ pure' = [pure EXCEPT !.stage = "decoded",
                            !.result = debase(URL_ALPHABET, pure.str)]
    /\ UNCHANGED <<files, disk, quarantine, now, nTick, nUploads, pc, ses,
                   resp, prn, hist>>

CodecNext == CodecEnbase \/ CodecDebase

SpecCodec == CodecInit /\ [][CodecNext]_vars

-----------------------------------------------------------------------------
(* File.get_expiration on its own *)

\* The requested expirations: absent; hours below, at and above the caps
\* (720 h is the smallest cap, 8760 h the largest); the values next to the
\* threshold; timestamps before, at and after the clock and the caps.
ExpRequested ==
    {None} \cup
    {Some(v) : v \in {0 - 1, 0, 1, 72, 719, 720, 721, 8760, 9000,
                      EXPIRATION_THRESHOLD - 1, EXPIRATION_THRESHOLD,
                      T0 - 1, T0, T0 + 1, T0 + FHOST_MIN_EXPIRATION,
                      T0 + FHOST_MIN_EXPIRATION + 1, 2 * T0}}

ExpInit ==
    /\ BaseInit
    /\ pure \in {[kind |-> "exp", stage |-> "input", requested |-> r,
                  size |-> sz, t1 |-> T0 + a, t2 |-> T0 + b, result |-> 0] :
                    r \in ExpRequested,
                    sz \in 0 .. (MAX_CONTENT_LENGTH + 1),
                    a \in 0 .. MaxTicks, b \in 0 .. MaxTicks}
    /\ pure.t1 <= pure.t2

ExpCall ==
    /\ pure.kind = "exp"
    /\ pure.stage = "input"
    /\ pure' = [pure EXCEPT !.stage = "done",
                            !.result = get_expiration(pure.requested,
                                          pure.size, pure.t1, pure.t2)]
    /\ UNCHANGED <<files, disk, quarantine, now, nTick, nUploads, pc, ses,
                   resp, prn, hist>>

ExpNext == ExpCall

SpecExp == ExpInit /\ [][ExpNext]_vars

-----------------------------------------------------------------------------
(* get_max_lifespan on its own: the lifespans of two sizes, a <= b *)

\* The largest size given to get_max_lifespan, in units of 16 MiB: sizes
\* above MAX_CONTENT_LENGTH are on the extrapolated part of the curve.
MaxSize == 19

LifeInit ==
    /\ BaseInit
    /\ pure \in {[kind |-> "life", stage |-> "input", a |-> a, b |-> b,
                  ra |-> 0, rb |-> 0] :
                    a \in 0 .. MaxSize, b \in 0 .. MaxSize}
    /\ pure.a <= pure.b

LifeCall ==
    /\ pure.kind = "life"
    /\ pure.stage = "input"
    /\ pure' = [pure EXCEPT !.stage = "done",
                            !.ra = get_max_lifespan(pure.a),
                            !.rb = get_max_lifespan(pure.b)]
    /\ UNCHANGED <<files, disk, quarantine, now, nTick, nUploads, pc, ses,
                   resp, prn, hist>>

LifeNext == LifeCall

SpecLife == LifeInit /\ [][LifeNext]_vars

-----------------------------------------------------------------------------
(* UrlEncoder on its own, from the name: a string over the alphabet is      *)
(* decoded as get() decodes the name in a path, and the id encoded again.    *)

\* The longest name decoded.
MaxNameLen == 3

\* The characters the names are made of: the first two and the last two of
\* URL_ALPHABET.
NameChars == {URL_ALPHABET[1], URL_ALPHABET[2], URL_ALPHABET[63],
              URL_ALPHABET[64]}

\* The strings over NameChars of at most MaxNameLen characters.
NameStrings ==
    UNION {[1 .. k -> NameChars] : k \in 0 .. MaxNameLen}

\* The names of at least min_length characters, for every min_length.
NameInit ==
    /\ BaseInit
    /\ \E m \in 0 .. MaxMinLength, str \in NameStrings :
          /\ Len(str) >= m
          /\ pure = [kind |-> "name", stage |-> "input", min_length |-> m,
                     str |-> str, x |-> 0, result |-> <<>>]

NameDebase ==
    /\ pure.kind = "name"
    /\ pure.stage = "input"
    /\ pure' = [pure EXCEPT !.stage = "decoded",
                            !.x = debase(URL_ALPHABET, pure.str)]
    /\ UNCHANGED <<files, disk, quarantine, now, nTick, nUploads, pc, ses,
                   resp, prn, hist>>

NameEnbase ==
    /\ pure.kind = "name"
    /\ pure.stage = "decoded"
    /\ pure' = [pure EXCEPT !.stage = "encoded",
                            !.result = enbase(URL_ALPHABET, pure.min_length,
                                              pure.x)]
    /\ UNCHANGED <<files, disk, quarantine, now, nTick, nUploads, pc, ses,
                   resp, prn, hist>>

NameNext == NameDebase \/ NameEnbase

SpecNames == NameInit /\ [][NameNext]_vars

-----------------------------------------------------------------------------
(* Properties *)

\* C1: for every id n >= 0 and every min_length, decoding the name that
\* enbase gives n yields n again: debase(enbase(n)) = n.
C1_RoundTrip ==
    (pure.kind = "codec" /\ pure.stage = "decoded") => pure.result = pure.x

\* C1 is exercised: a three-character name has been decoded, and so has the
\* padded name of 0.
C1_Witness ==
    /\ pure.kind = "codec"
    /\ pure.stage = "decoded"
    /\ pure.x = 4100
    /\ pure.min_length = 1
    /\ Len(pure.str) = 3
    /\ pure.result = 4100

\* What the requested expiration means: hours from the first clock reading
\* below the threshold, a timestamp from the threshold on.
C10_Interpreted(requested, t1) ==
    IF Val(requested) < EXPIRATION_THRESHOLD
    THEN t1 + Val(requested) * HOUR
    ELSE Val(requested)

\* C10: get_expiration(requested, size) is the cap, maxLifespan(size) + now,
\* when nothing is requested, and otherwise the smaller of the cap and the
\* request, read as hours from now below the threshold and as a timestamp
\* from the threshold on.  (now is the clock as the function reads it: once
\* for the hours, once more for the cap.)
C10_Expiration ==
    (pure.kind = "exp" /\ pure.stage = "done") =>
        LET cap == get_max_lifespan(pure.size) + pure.t2
        IN  /\ pure.requested = None => pure.result = cap
            /\ pure.requested # None =>
                  /\ pure.result <= cap
                  /\ pure.result <= C10_Interpreted(pure.requested, pure.t1)
                  /\ pure.result \in
                        {cap, C10_Interpreted(pure.requested, pure.t1)}

\* C10 is exercised: 72 hours were requested for a file whose cap is further
\* away, and the result is now + 72 hours.
C10_Witness ==
    /\ pure.kind = "exp"
    /\ pure.stage = "done"
    /\ pure.requested = Some(72)
    /\ pure.t1 = pure.t2
    /\ pure.result = pure.t1 + 72 * HOUR
    /\ pure.result < get_max_lifespan(pure.size) + pure.t2


\* The row of a content's digest, 0 when the table has none.
RowOf(c) == QueryBySha(Sha256(c))

\* What File.store's query hands the rest of the upload: whether a row was
\* found, and the row as it is in the table when the upload starts.
Loaded(w) ==
    (pc[w] = "idle" /\ pc'[w] = "queried") =>
        LET id == RowOf(ses'[w].file)
        IN  /\ ses'[w].fresh = (id = 0)
            /\ id # 0 => (ses'[w].id = id /\ ses'[w].loaded = files[id])

\* C2: with the handlers run one at a time, every upload of a content that
\* File.store accepts answers with the name of the one row of its digest, and
\* its bytes are at the path named by the digest; rows keep their place,
\* digest and extension, so two uploads of a content give the same name and
\* path.  The upload that finds no row returns isNew with the row's token in
\* X-Token; the upload that finds the row live (expiration not NULL: no
\* delete or prune has expired it, and vscan has not removed it) returns
\* isNew = false and no X-Token, and leaves the token as it was.
C2_SameRecord ==
    [][/\ \A i \in 1 .. Len(files) :
            /\ i <= Len(files')
            /\ files'[i].sha256 = files[i].sha256
            /\ files'[i].ext = files[i].ext
       /\ \A w \in Workers :
            /\ Loaded(w)
            /\ StoreRespond(w) =>
                  LET s == ses[w]
                      id == RowOf(s.file)
                      f == files[id]
                  IN  /\ id # 0
                      /\ s.id = id
                      /\ \A j \in 1 .. Len(files) :
                            files[j].sha256 = Sha256(s.file) => j = id
                      /\ resp'[w].status = 200
                      /\ resp'[w].name = Some(getname(id, f))
                      /\ getpath(f) = Sha256(s.file)
                      /\ getpath(f) \in disk
                      /\ s.fresh =>
                            /\ resp'[w].isnew
                            /\ f.mgmt_token # None
                            /\ resp'[w].xtoken = Some(f.mgmt_token)
                      /\ (~s.fresh /\ s.loaded.expiration # None) =>
                            /\ ~resp'[w].isnew
                            /\ resp'[w].xtoken = None
                            /\ f.mgmt_token = s.loaded.mgmt_token]_vars

\* C2 is exercised: the second of two uploads has been answered with the name
\* of the row the first one made (the row holds the first upload's token),
\* not as new and without X-Token.
C2_Witness ==
    \E c \in Contents :
        LET id == RowOf(c)
        IN  /\ id # 0
            /\ nUploads = 2
            /\ files[id].mgmt_token = Some(token_urlsafe(1))
            /\ resp[1] = Response(200, c, Some(getname(id, files[id])),
                                  None, FALSE)
            /\ getpath(files[id]) \in disk

\* C3: an upload of a content whose row has removed = true is answered 451
\* (400 or 403 when File.store's MIME checks, which come first, reject it),
\* and no row, no stored file and no quarantined file changes.
C3_Blocked ==
    [][\A c \in Contents :
          (RowOf(c) # 0 /\ files[RowOf(c)].removed) =>
             \A w \in Workers, r \in Requested, cl \in Clients,
                secret \in BOOLEAN, mime \in MimeChecks,
                t2 \in LaterReadings :
                StoreQuery(w, c, r, cl, secret, mime, t2) =>
                   /\ resp'[w].status = (IF mime = "ok" THEN 451
                                         ELSE IF mime = "too long" THEN 400
                                         ELSE 403)
                   /\ pc'[w] = "idle"
                   /\ files' = files
                   /\ disk' = disk
                   /\ quarantine' = quarantine]_vars

\* C3 is exercised: vscan has removed a row, and an upload of its content has
\* been answered 451.
C3_Witness ==
    \E c \in Contents :
        /\ RowOf(c) # 0
        /\ files[RowOf(c)].removed
        /\ getname(RowOf(c), files[RowOf(c)]) \in quarantine
        /\ resp[1] = Abort(451, c)

\* C4: no upload is answered with a failure because another upload of the same
\* unseen digest committed first.
C4_NeverSurfaced == \A w \in Workers : resp[w].status # 500

\* C5: of the uploads of one digest that are in progress at the same time, at
\* most one has committed as new (isNew, with a token of its own to return in
\* X-Token).
C5_AtMostOneNew ==
    \A w1, w2 \in Workers :
        (/\ w1 # w2
         /\ pc[w1] = "committed"
         /\ pc[w2] = "committed"
         /\ ses[w1].file = ses[w2].file)
        => ~(ses[w1].isnew /\ ses[w2].isnew)

\* The requests that get as far as manage_file, with the row they reach.
ManageRequests ==
    {q \in [name : Names, sufs : Suffixes, secret : Secrets, token : Tokens] :
        Reaches(q.name, q.sufs, q.secret)}

\* The row a request names.
RowNamed(q) == files[debase(URL_ALPHABET, q.name)]

\* get() for a POST that reaches manage_file.
Managed(q, kind, value, t2) ==
    get("POST", q.name, q.sufs, q.secret, q.token, kind, value, now, t2)

\* C6: a management request (delete, set-expiration or neither) whose token is
\* not the row's mgmt_token is answered 401; the handler leaves the row as it
\* is and unlinks nothing, and the request's step changes no row and no
\* stored file.
C6_WrongToken ==
    /\ [](\A q \in ManageRequests :
             Some(q.token) # RowNamed(q).mgmt_token =>
                \A kind \in FormKinds, value \in ManageRequested,
                   t2 \in LaterReadings :
                   LET out == Managed(q, kind, value, t2)
                   IN  /\ out.status = 401
                       /\ out.f = RowNamed(q)
                       /\ ~out.unlinked)
    /\ [][(files' = files /\ disk' = disk) \/
          ~\E q \in ManageRequests :
              /\ Some(q.token) # RowNamed(q).mgmt_token
              /\ \E kind \in FormKinds, value \in ManageRequested,
                    t2 \in LaterReadings :
                    Get("POST", q.name, q.sufs, q.secret, q.token, kind,
                        value, t2)]_vars

\* C6 is exercised: a row with a token, a secret and its bytes stored can be
\* reached by a request with another row's token.
C6_Witness ==
    \E q \in ManageRequests :
        /\ RowNamed(q).mgmt_token # None
        /\ RowNamed(q).secret # None
        /\ q.token # 0
        /\ Some(q.token) # RowNamed(q).mgmt_token
        /\ Managed(q, "delete", 0, now).status = 401

\* C7: a management delete with the row's token is answered 200 and leaves
\* the row with expiration NULL, mgmt_token NULL and removed false and its
\* file unlinked (and every step that clears a row's token leaves the row so,
\* with no bytes stored); the next upload of the content that finds the row so
\* is answered as new: isNew, X-Token the token this upload drew, the
\* expiration this upload computed, and the bytes stored.
C7_DeleteThenNew ==
    /\ [](\A q \in ManageRequests :
             Some(q.token) = RowNamed(q).mgmt_token =>
                LET out == Managed(q, "delete", 0, now)
                IN  /\ out.status = 200
                    /\ out.unlinked
                    /\ out.f.expiration = None
                    /\ out.f.mgmt_token = None
                    /\ out.f.removed = FALSE)
    /\ [][/\ \A i \in 1 .. Len(files) :
               (files[i].mgmt_token # None /\ files'[i].mgmt_token = None) =>
                  /\ files'[i].expiration = None
                  /\ files'[i].removed = FALSE
                  /\ getpath(files[i]) \notin disk'
          /\ \A w \in Workers :
               /\ Loaded(w)
               /\ StoreRespond(w) =>
                     LET s == ses[w]
                         f == files[s.id]
                     IN  (/\ ~s.fresh
                          /\ s.loaded.expiration = None
                          /\ s.loaded.mgmt_token = None
                          /\ s.loaded.removed = FALSE) =>
                            /\ resp'[w].status = 200
                            /\ resp'[w].isnew
                            /\ resp'[w].xtoken = Some(f.mgmt_token)
                            /\ f.mgmt_token =
                                  Some(token_urlsafe(2 * (nUploads - 1) + 1))
                            /\ f.expiration # None
                            /\ f.expiration = s.f.expiration
                            /\ Val(f.expiration) >= now - 1
                            /\ getpath(f) \in disk]_vars

\* C7 is exercised: the second upload found the row as a delete leaves it
\* (the clock has not moved, so nothing has expired), and has committed as new
\* with a token of its own and its bytes stored.
C7_Witness ==
    /\ pc[1] = "committed"
    /\ nUploads = 2
    /\ nTick = 0
    /\ ~ses[1].fresh
    /\ ses[1].loaded.expiration = None
    /\ ses[1].loaded.mgmt_token = None
    /\ ses[1].isnew
    /\ files[ses[1].id].mgmt_token = Some(token_urlsafe(3))
    /\ files[ses[1].id].expiration # None
    /\ getpath(files[ses[1].id]) \in disk

\* C8: a run of prune that completes sets expiration to NULL and leaves no
\* bytes for every row whose expiration is set and below the clock, and
\* changes no other row; a run started right after it, at the same clock and
\* with nothing else in between, selects no row, unlinks nothing and changes
\* no row.  (hist.quiet counts the completed runs since anything else ran.)
C8_PruneTwice ==
    [][/\ PruneCommit =>
            \A i \in 1 .. Len(files) :
               IF i \in Expired(now)
               THEN /\ files'[i] = [files[i] EXCEPT !.expiration = None]
                    /\ getpath(files[i]) \notin disk'
               ELSE files'[i] = files[i]
       /\ (PruneStart /\ hist.quiet >= 1) => prn'.todo = {}
       /\ (prn.pc = "loop" /\ hist.quiet >= 1) =>
            /\ prn.todo = {}
            /\ prn.nulled = {}
            /\ files' = files
            /\ disk' = disk
            /\ quarantine' = quarantine]_vars

\* C8 is exercised: two runs in a row have completed, and the first of them
\* expired a row (its token is still there) and unlinked its file.
C8_Witness ==
    /\ hist.quiet = 2
    /\ prn.pc = "idle"
    /\ \E i \in 1 .. Len(files) :
          /\ files[i].expiration = None
          /\ files[i].mgmt_token # None
          /\ getpath(files[i]) \notin disk

\* C9: every row with an expiration has it at or below the clock plus
\* get_max_lifespan of its size.
C9_Capped ==
    \A i \in 1 .. Len(files) :
        files[i].expiration # None =>
            Val(files[i].expiration)
                <= now + get_max_lifespan(Val(files[i].size))

\* C9 is exercised: after the clock has moved, the expiration of a file of
\* the largest size is exactly at its cap.
C9_Witness ==
    \E i \in 1 .. Len(files) :
        /\ nTick = 1
        /\ files[i].size = Some(MAX_CONTENT_LENGTH)
        /\ files[i].expiration = Some(now + FHOST_MIN_EXPIRATION)
        /\ nUploads = 1

\* C11: get_max_lifespan does not grow with the size (a <= b gives
\* lifespan(a) >= lifespan(b)); it is FHOST_MAX_EXPIRATION at size 0 and
\* FHOST_MIN_EXPIRATION at size MAX_CONTENT_LENGTH, and the first is the
\* larger.
C11_Monotone ==
    (pure.kind = "life" /\ pure.stage = "done") =>
        /\ pure.ra >= pure.rb
        /\ pure.a = 0 => pure.ra = FHOST_MAX_EXPIRATION
        /\ pure.b = MAX_CONTENT_LENGTH => pure.rb = FHOST_MIN_EXPIRATION
        /\ (pure.a = 0 /\ pure.b = MAX_CONTENT_LENGTH) => pure.ra > pure.rb

\* C11 is exercised: the lifespans of size 0 and of size MAX_CONTENT_LENGTH
\* have been computed, and they are the two configured lifespans.
C11_Witness ==
    /\ pure.kind = "life"
    /\ pure.stage = "done"
    /\ pure.a = 0
    /\ pure.b = MAX_CONTENT_LENGTH
    /\ pure.ra = FHOST_MAX_EXPIRATION
    /\ pure.rb = FHOST_MIN_EXPIRATION

\* How many base-n digits x has: none for 0.
RECURSIVE Digits(_, _)
Digits(n, x) == IF x = 0 THEN 0 ELSE 1 + Digits(n, x \div n)

\* C12: enbase(x) is made of characters of the alphabet and is at least
\* min_length long: it is the base-n digits of x, most significant first (as
\* many as x has, none for 0), behind as many copies of the alphabet's first
\* character as it takes to reach min_length; enbase(0) is min_length copies
\* of that character.
C12_Digits ==
    (pure.kind = "codec" /\ pure.stage # "input") =>
        LET n == Len(URL_ALPHABET)
            k == Digits(n, pure.x)
            len == Len(pure.str)
            pad == len - k
        IN  /\ \A i \in 1 .. len :
                  \E j \in 1 .. n : pure.str[i] = URL_ALPHABET[j]
            /\ len >= pure.min_length
            /\ len = Max(k, pure.min_length)
            /\ \A i \in 1 .. pad : pure.str[i] = URL_ALPHABET[1]
            /\ \A i \in 1 .. k :
                  pure.str[pad + i] =
                     URL_ALPHABET[((pure.x \div Pow(n, k - i)) % n) + 1]
            /\ pure.x = 0 =>
                  pure.str = [i \in 1 .. pure.min_length |-> URL_ALPHABET[1]]

\* C12 is exercised: 0 has been encoded with min_length 3, and the name is
\* three copies of the alphabet's first character.
C12_Witness ==
    /\ pure.kind = "codec"
    /\ pure.stage = "encoded"
    /\ pure.x = 0
    /\ pure.min_length = 3
    /\ pure.str = <<"D", "D", "D">>

\* C13: a row with removed = true keeps it through every step (uploads,
\* management requests, prune, vscan); no upload in File.store past its lookup
\* is of a digest whose row is removed, and no upload of such a digest is
\* answered 200.
C13_Terminal ==
    /\ [](\A w \in Workers :
             pc[w] # "idle" =>
                (RowOf(ses[w].file) = 0 \/ ~files[RowOf(ses[w].file)].removed))
    /\ [][/\ \A i \in 1 .. Len(files) :
               files[i].removed => (i <= Len(files') /\ files'[i].removed)
          /\ \A w \in Workers :
               (resp'[w] # resp[w] /\ resp'[w].status = 200) =>
                  ~files'[RowOf(resp'[w].file)].removed]_vars

\* C13 is exercised: a row that vscan removed has since been expired by
\* prune, is still removed, and an upload of its content has been answered
\* 451.
C13_Witness ==
    \E c \in Contents :
        /\ RowOf(c) # 0
        /\ files[RowOf(c)].removed
        /\ files[RowOf(c)].expiration = None
        /\ resp[1] = Abort(451, c)
        /\ nUploads = 2

\* What a GET of row i's own path, with the row's own secret, is answered.
Fetched(i) ==
    get("GET", enbase(URL_ALPHABET, su_min_length, i), files[i].ext,
        files[i].secret, 0, "none", 0, now, now)

\* C14: once no upload is in progress, a GET of the path of a row whose
\* expiration is NULL does not serve the content.
C14_NullNotServed ==
    (\A w \in Workers : pc[w] = "idle") =>
        \A i \in 1 .. Len(files) :
            files[i].expiration = None => ~Fetched(i).served

\* C15: a GET of the path of a row whose expiration is below the clock is
\* answered 404 and does not serve the content, whether prune has run or not.
C15_ExpiredNotServed ==
    \A i \in 1 .. Len(files) :
        (files[i].expiration # None /\ Val(files[i].expiration) < now) =>
            (Fetched(i).status = 404 /\ ~Fetched(i).served)

\* The requests for a row's path whose secret is not the row's: a secret
\* where the row has none, none where it has one, or another string.
Mismatched ==
    {q \in [name : Names, sufs : Suffixes, secret : Secrets] :
        LET id == debase(URL_ALPHABET, q.name)
        IN  /\ id \in 1 .. Len(files)
            /\ files[id].ext = q.sufs
            /\ files[id].secret # q.secret}

\* What such a request can ask for: the content, or, with each token a client
\* can hold, a delete or a new expiration.
Asked ==
    {[method |-> "GET", token |-> 0, kind |-> "none"]}
    \cup {[method |-> "POST", token |-> t, kind |-> k] :
             t \in Tokens, k \in {"delete", "expires"}}

\* C16: a request for a row's path with a secret other than the row's (absent
\* matches only absent) is answered 404, whether it asks for the content, for
\* a delete or for a new expiration, with the row's token or without: nothing
\* is served, and the handler leaves the row as it is and unlinks nothing.
\* Whenever a GET serves a row's content, the secret in the path is the
\* row's.
C16_SecretGate ==
    /\ \A q \in Mismatched, a \in Asked :
          LET out == get(a.method, q.name, q.sufs, q.secret, a.token,
                         a.kind, 0, now, now)
          IN  /\ out.status = 404
              /\ ~out.served
              /\ ~out.unlinked
              /\ out.f = files[debase(URL_ALPHABET, q.name)]
    /\ \A name \in Names, sufs \in Suffixes, secret \in Secrets :
          get("GET", name, sufs, secret, 0, "none", 0, now, now).served
             => files[debase(URL_ALPHABET, name)].secret = secret

\* C16 is exercised: a row has a secret and its bytes stored; a GET of its
\* path with the secret serves the content, and the GET without a secret and
\* the delete with the row's token but another secret are answered 404.
C16_Witness ==
    \E i \in 1 .. Len(files) :
        LET name == enbase(URL_ALPHABET, su_min_length, i)
            f == files[i]
        IN  /\ f.secret # None
            /\ f.mgmt_token # None
            /\ Fetched(i).served
            /\ get("GET", name, f.ext, None, 0, "none", 0, now,
                   now).status = 404
            /\ get("POST", name, f.ext, Some(0), Val(f.mgmt_token), "delete",
                   0, now, now).status = 404

\* C17: when os.remove raises an OSError other than FileNotFoundError for one
\* expired file, prune skips that file only: it stays in its loop with the
\* other rows still to do and with the rows whose bytes it has removed still
\* to be committed with expiration NULL (whenever there is such a row).
C17_SkipAndCommit ==
    [][\A i \in 1 .. Len(files) :
          (PruneOSError(i) /\ (prn.todo # {i} \/ prn.nulled # {})) =>
              prn' = [prn EXCEPT !.todo = @ \ {i}]]_vars

\* C18: a run of vscan marks every scanned file that the scanner reports
\* FOUND with a signature outside VSCAN_IGNORE as removed and moves its bytes
\* from the store into the quarantine, so that File.store rejects its content
\* from then on; a file reported FOUND with an ignored signature stays not
\* removed with its bytes in the store.
C18_Quarantine ==
    [][(files' # files /\ prn.pc = "idle" /\ ToScan # {}) =>
          \A answers \in [ToScan -> ScanResults] :
              Vscan(answers) =>
                  \A i \in ToScan :
                      LET result == do_vscan(files[i], answers[i])
                      IN  /\ (result[1] = "FOUND"
                                  /\ result[2] \notin VSCAN_IGNORE) =>
                              /\ files'[i].removed
                              /\ Blocked(files'[i])
                              /\ getpath(files[i]) \notin disk'
                              /\ getname(i, files[i]) \in quarantine'
                          /\ (result[1] = "FOUND"
                                  /\ result[2] \in VSCAN_IGNORE) =>
                              /\ ~files'[i].removed
                              /\ getpath(files[i]) \in disk'
                              /\ getname(i, files[i]) \notin quarantine']_vars

\* Two scanned files: one removed and in the quarantine, the other kept in the
\* store.
C18_Witness ==
    /\ Len(files) = 2
    /\ files[1].removed
    /\ files[1].last_vscan # None
    /\ getpath(files[1]) \notin disk
    /\ getname(1, files[1]) \in quarantine
    /\ ~files[2].removed
    /\ files[2].last_vscan # None
    /\ getpath(files[2]) \in disk
    /\ getname(2, files[2]) \notin quarantine

\* C19: in every reachable state a row that is expired or removed
\* (expiration NULL or removed true) has mgmt_token NULL, whether it got there
\* by a management delete, by prune or by vscan.
C19_NoTokenWhenGone ==
    \A i \in 1 .. Len(files) :
        (files[i].expiration = None \/ files[i].removed) =>
            files[i].mgmt_token = None

\* The upload of worker w found a row that had expired and was not removed.
Reviving(w) ==
    /\ ~ses[w].fresh
    /\ ses[w].loaded.expiration = None
    /\ ~ses[w].loaded.removed

\* The management tokens and secrets the table holds.
TokensHeld == {files[i].mgmt_token : i \in 1 .. Len(files)}
SecretsHeld == {files[i].secret : i \in 1 .. Len(files)}

\* C20: an upload whose digest is that of an expired row that is not removed
\* (expiration NULL) revives it: the row gets the expiration computed for this
\* request and a management token no row has held, the upload counts as new
\* (200 with X-Token), and the row's secret becomes a newly drawn one when the
\* request asks for a secret and NULL when it does not, whatever it was.
C20_Revival ==
    [][\A w \in Workers :
          /\ (pc[w] = "idle" /\ pc'[w] = "queried" /\ Reviving(w)') =>
                \A c \in Contents, r \in Requested, cl \in Clients,
                   secret \in BOOLEAN, t2 \in LaterReadings :
                    StoreQuery(w, c, r, cl, secret, "ok", t2) =>
                        LET f == ses'[w].f
                        IN  /\ ses'[w].isnew
                            /\ f.expiration =
                                  Some(get_expiration(r, SizeOf(c), now, t2))
                            /\ f.mgmt_token # None
                            /\ f.mgmt_token \notin TokensHeld
                            /\ ~f.removed
                            /\ IF secret
                               THEN f.secret # None
                                       /\ f.secret \notin SecretsHeld
                               ELSE f.secret = None
          /\ (pc[w] = "saved" /\ pc'[w] # "saved" /\ Reviving(w)) =>
                /\ pc'[w] = "committed"
                /\ Len(files') = Len(files)
                /\ files'[ses[w].id].expiration = ses[w].f.expiration
                /\ files'[ses[w].id].mgmt_token = ses[w].f.mgmt_token
                /\ files'[ses[w].id].secret = ses[w].f.secret
          /\ (pc[w] = "committed" /\ pc'[w] = "idle" /\ Reviving(w)) =>
                /\ resp'[w].status = 200
                /\ resp'[w].isnew
                /\ resp'[w].xtoken = Some(files[ses[w].id].mgmt_token)
                /\ files[ses[w].id].mgmt_token # None]_vars

\* The revival of a row that prune has expired and that had a secret, by an
\* upload that asks for none, is committed.
C20_Witness ==
    \E w \in Workers :
        /\ pc[w] = "committed"
        /\ Reviving(w)
        /\ ses[w].isnew
        /\ ses[w].loaded.mgmt_token # None
        /\ ses[w].loaded.secret # None
        /\ files[ses[w].id].secret = None
        /\ files[ses[w].id].expiration # None
        /\ files[ses[w].id].mgmt_token \notin {None, ses[w].loaded.mgmt_token}

\* The upload of worker w found a live row: not removed, expiration not NULL.
Extending(w) ==
    /\ ~ses[w].fresh
    /\ ses[w].loaded.expiration # None
    /\ ~ses[w].loaded.removed

\* C21: an upload whose digest is that of a live row (expiration not NULL,
\* removed false) sets the row's expiration to the later of the one it has and
\* the one computed for this request, so the expiration does not decrease; it
\* leaves mgmt_token and secret as they are, whatever expiration and secret
\* flag the request carries, and is answered 200, not new, without X-Token.
C21_Extension ==
    [][\A w \in Workers :
          /\ (pc[w] = "idle" /\ pc'[w] = "queried" /\ Extending(w)') =>
                \A c \in Contents, r \in Requested, cl \in Clients,
                   secret \in BOOLEAN, t2 \in LaterReadings :
                    StoreQuery(w, c, r, cl, secret, "ok", t2) =>
                        LET f == ses'[w].f
                            old == files[RowOf(c)]
                            computed ==
                                get_expiration(r, SizeOf(c), now, t2)
                        IN  /\ ~ses'[w].isnew
                            /\ f.expiration =
                                  Some(Max(Val(old.expiration), computed))
                            /\ Val(f.expiration) >= Val(old.expiration)
                            /\ f.mgmt_token = old.mgmt_token
                            /\ f.secret = old.secret
                            /\ ~f.removed
          /\ (pc[w] = "saved" /\ pc'[w] # "saved" /\ Extending(w)) =>
                LET id == ses[w].id
                IN  /\ pc'[w] = "committed"
                    /\ Len(files') = Len(files)
                    /\ files'[id].expiration = ses[w].f.expiration
                    /\ Val(files'[id].expiration)
                          >= Val(files[id].expiration)
                    /\ files'[id].mgmt_token = files[id].mgmt_token
                    /\ files'[id].secret = files[id].secret
          /\ (pc[w] = "committed" /\ pc'[w] = "idle" /\ Extending(w)) =>
                /\ resp'[w].status = 200
                /\ ~resp'[w].isnew
                /\ resp'[w].xtoken = None
                /\ files' = files]_vars

\* An upload of a live row that has a secret and a later expiration than the
\* one computed for the request is committed: the row keeps all three.
C21_Witness ==
    \E w \in Workers :
        /\ pc[w] = "committed"
        /\ Extending(w)
        /\ ses[w].loaded.secret # None
        /\ ses[w].loaded.mgmt_token # None
        /\ files[ses[w].id].secret = ses[w].loaded.secret
        /\ files[ses[w].id].mgmt_token = ses[w].loaded.mgmt_token
        /\ files[ses[w].id].expiration = ses[w].loaded.expiration
        /\ Val(files[ses[w].id].expiration) > now + FHOST_MIN_EXPIRATION

\* C22: no step deletes a row or changes the id or the sha256 of one; no two
\* rows have the same sha256; and an upload of a digest that has a row works
\* on that row and, when it succeeds, is answered with the name of that row.
C22_RowsPersist ==
    [][/\ Len(files') >= Len(files)
       /\ \A i \in 1 .. Len(files) : files'[i].sha256 = files[i].sha256
       /\ \A i, j \in 1 .. Len(files') :
             files'[i].sha256 = files'[j].sha256 => i = j
       /\ \A w \in Workers :
             /\ (pc[w] = "idle" /\ pc'[w] = "queried"
                     /\ RowOf(ses'[w].file) # 0) =>
                   ses'[w].id = RowOf(ses'[w].file)
             /\ (pc[w] = "committed" /\ pc'[w] = "idle") =>
                   LET id == RowOf(ses[w].file)
                   IN  /\ id # 0
                       /\ ses[w].fresh \/ ses[w].id = id
                       /\ resp'[w].status = 200
                       /\ resp'[w].name = Some(getname(id, files[id]))]_vars

\* The one row of a digest has expired (by a delete or by prune), vscan has
\* looked at it, and a second upload has revived it and is answered with the
\* name of row 1.
C22_Witness ==
    /\ Len(files) = 1
    /\ nUploads = 2
    /\ files[1].last_vscan # None
    /\ files[1].mgmt_token = Some(token_urlsafe(3))
    /\ resp[1].status = 200
    /\ resp[1].isnew
    /\ resp[1].name = Some(getname(1, files[1]))

\* C23: whenever no upload and no prune run is under way, every row that is
\* not removed and whose expiration is set and has not passed has its bytes in
\* the store at the path of its sha256, whatever interleaving of uploads,
\* deletes and prune runs (aborted by an OSError or not) came before.
C23_BytesPresent ==
    AllIdle =>
        \A i \in 1 .. Len(files) :
            (/\ files[i].expiration # None
             /\ Val(files[i].expiration) >= now
             /\ ~files[i].removed) =>
                getpath(files[i]) \in disk

\* C24: for every string over the alphabet of at least min_length characters,
\* encoding the id it decodes to gives the string back, so that no two such
\* names decode to the same id.
C24_Bijection ==
    (pure.kind = "name" /\ pure.stage = "encoded") =>
        pure.result = pure.str

=============================================================================
